---------------------------- MODULE Spec2Model ----------------------------
(***************************************************************************)
(* Model of src/util/web_worker_transfer.js: the class registry and the    *)
(* functions register, serialize and deserialize that move typed object    *)
(* graphs to and from a web worker.                                        *)
(*                                                                         *)
(* JavaScript values are records tagged by "kind".  Arrays and objects     *)
(* carry "alloc", naming who allocated them ("caller", "serialize" or      *)
(* "deserialize"), so that "the same reference" and "a new array" can be   *)
(* told apart.  An object's own enumerable properties are a sequence of    *)
(* [k, v] pairs in insertion order (the order for..in and Object.keys      *)
(* visit them in); "ctor" names its constructor's class (NoConstructor for *)
(* an object that has none).                                               *)
(***************************************************************************)
EXTENDS Integers, Sequences, FiniteSets, TLC

VARIABLES registry, op, arg, trIn, ret, origin

vars == <<registry, op, arg, trIn, ret, origin>>

---------------------------------------------------------------------------
(* Bounds of the input universe. *)

\* number of distinct ArrayBuffers the caller owns
NumBuffers == 2
\* longest caller array offered to serialize
MaxLen == 2

---------------------------------------------------------------------------
(* JavaScript values *)

Undefined == [kind |-> "undefined"]
Null == [kind |-> "null"]
Bool(b) == [kind |-> "boolean", val |-> b]
Num(n) == [kind |-> "number", val |-> n]
Str(s) == [kind |-> "string", val |-> s]
BoxedNumber == [kind |-> "Number", alloc |-> "caller"]
DateVal == [kind |-> "Date", alloc |-> "caller"]
RegExpVal == [kind |-> "RegExp", alloc |-> "caller"]
Func == [kind |-> "function"]
Buffer(i) == [kind |-> "ArrayBuffer", id |-> i]
\* a typed-array view number j over buffer i
View(j, i) == [kind |-> "view", id |-> j, buffer |-> Buffer(i)]
Arr(alloc, items) == [kind |-> "array", alloc |-> alloc, items |-> items]
Prop(k, v) == [k |-> k, v |-> v]
Obj(alloc, ctor, props) == [kind |-> "object", alloc |-> alloc, ctor |-> ctor, props |-> props]

\* a class (constructor function): its name, its static serialize and
\* deserialize hooks (present or not) and the enumerable properties that sit
\* on its prototype
\* (serialize and deserialize are Func or Undefined)
Class(cid, name, ser, des, proto) == [kind |-> "class", cid |-> cid, name |-> name, serialize |-> ser, deserialize |-> des, proto |-> proto]

\* the built-in Object constructor
ObjectClass == Class("Object", "Object", Undefined, Undefined, <<>>)


\* the classes the module registers while it loads (lines 70-78)
Color == Class("Color", "Color", Undefined, Undefined, <<>>)
StylePropertyFunction == Class("StylePropertyFunction", "StylePropertyFunction", Undefined, Undefined, <<>>)
StyleExpression == Class("StyleExpression", "StyleExpression", Undefined, Undefined, <<>>)
StyleExpressionWithErrorHandling == Class("StyleExpressionWithErrorHandling", "StyleExpressionWithErrorHandling", Undefined, Undefined, <<>>)
ZoomDependentExpression == Class("ZoomDependentExpression", "ZoomDependentExpression", Undefined, Undefined, <<>>)
ZoomConstantExpression == Class("ZoomConstantExpression", "ZoomConstantExpression", Undefined, Undefined, <<>>)
CompoundExpression == Class("CompoundExpression", "CompoundExpression", Undefined, Undefined, <<>>)

\* classes of the callers
\* a plain class whose prototype carries one enumerable property
Foo == Class("Foo", "Foo", Undefined, Undefined, <<Prop("c", Func)>>)
\* another class that is also named Foo, with static hooks
FooTwin == Class("Foo#2", "Foo", Func, Func, <<>>)
\* a class with static serialize and deserialize hooks
Hooked == Class("Hooked", "Hooked", Func, Func, <<>>)
\* a class expression without a name
Anonymous == Class("anonymous", "", Undefined, Undefined, <<>>)
\* a class named like a member of Object.prototype
ToStringClass == Class("toString", "toString", Undefined, Undefined, <<>>)
\* a class nobody registers
Bar == Class("Bar", "Bar", Undefined, Undefined, <<>>)

AllClasses ==
    {ObjectClass, Color, StylePropertyFunction, StyleExpression, StyleExpressionWithErrorHandling,
     ZoomDependentExpression, ZoomConstantExpression, CompoundExpression,
     Foo, FooTwin, Hooked, Anonymous, ToStringClass, Bar}

\* the class an object's ctor names
ClassOf(cid) == CHOOSE klass \in AllClasses : klass.cid = cid

\* a plain object {...}
PlainObject(alloc, props) == Obj(alloc, "Object", props)

\* the ctor of an object without a constructor, as Object.create(null) makes
NoConstructor == "(none)"

\* JavaScript truthiness of the values a `!x` or `if (x)` of the source tests
Falsy(v) == \/ v.kind \in {"undefined", "null"}
            \/ (v.kind = "boolean" /\ v.val = FALSE)
            \/ (v.kind = "number" /\ v.val = 0)
            \/ (v.kind = "string" /\ v.val = "")

\* the string a value becomes when it is used as a property key
ToPropertyKey(v) == CASE v.kind = "string" -> v.val
                      [] v.kind = "boolean" -> IF v.val THEN "true" ELSE "false"
                      [] v.kind = "null" -> "null"
                      [] v.kind = "undefined" -> "undefined"
                      [] OTHER -> "[object Object]"

\* x.f on a record-like value: undefined when the field is missing
Field(x, f) == IF f \in DOMAIN x THEN x[f] ELSE Undefined

\* list.indexOf(key) >= 0
Includes(list, key) == \E i \in 1..Len(list) : list[i] = key

\* the own enumerable [k, v] pairs of a value (Object.keys order); primitives
\* have none
OwnProps(v) == IF v.kind = "object" THEN v.props ELSE <<>>

OwnKeys(v) == {OwnProps(v)[i].k : i \in 1..Len(OwnProps(v))}

\* the enumerable pairs an object inherits from its constructor's prototype
ProtoProps(v) == IF v.kind = "object" /\ v.ctor # NoConstructor
                 THEN SelectSeq(ClassOf(v.ctor).proto, LAMBDA p : p.k \notin OwnKeys(v))
                 ELSE <<>>

\* v[key]: own property first, then the prototype's, else undefined
GetProp(v, key) ==
    LET own == SelectSeq(OwnProps(v), LAMBDA p : p.k = key)
        inh == SelectSeq(ProtoProps(v), LAMBDA p : p.k = key)
    IN IF own # <<>> THEN own[1].v ELSE IF inh # <<>> THEN inh[1].v ELSE Undefined

\* props after `object[key] = value`
SetProp(props, key, value) ==
    IF \E i \in 1..Len(props) : props[i].k = key
    THEN [i \in 1..Len(props) |-> IF props[i].k = key THEN Prop(key, value) ELSE props[i]]
    ELSE Append(props, Prop(key, value))

---------------------------------------------------------------------------
(* The registry and register() *)

\* `const registry = {}` is a plain object: besides its own keys a lookup
\* registry[name] finds the members of Object.prototype
ObjectPrototypeKeys == {"constructor", "toString", "valueOf", "hasOwnProperty"}

\* registry[name] in registry state reg
RegistryGet(reg, name) ==
    IF name \in DOMAIN reg THEN reg[name]
    ELSE IF name \in ObjectPrototypeKeys THEN Func
    ELSE Undefined

\* options.omit || []
OrEmpty(list) == IF Falsy(list) THEN <<>> ELSE list.items

RegResult(ok, err, reg) == [ok |-> ok, err |-> err, registry |-> reg]

\* the descriptor register() stores
Descriptor(klass, options) ==
    [kind |-> "descriptor", klass |-> klass.cid, omit |-> OrEmpty(Field(options, "omit")), shallow |-> OrEmpty(Field(options, "shallow"))]

\* register without its second assertion: a name already registered is
\* registered again
registerOverwriting(reg, klass, options) ==
    LET name == klass.name IN
    IF name = "" THEN RegResult(FALSE, "AssertionError", reg)
    ELSE RegResult(TRUE, "none", (name :> Descriptor(klass, options)) @@ reg)

\* register(klass, options) in registry state reg
register(reg, klass, options) ==
    LET name == klass.name IN
    IF name = "" THEN RegResult(FALSE, "AssertionError", reg)
    ELSE IF ~Falsy(RegistryGet(reg, name)) THEN RegResult(FALSE, "AssertionError", reg)
    ELSE RegResult(TRUE, "none", (name :> Descriptor(klass, options)) @@ reg)

---------------------------------------------------------------------------
(* serialize() *)

\* what a call returns: a value (ok) or the error it throws, together with the
\* caller's transferables list as the call leaves it and the number of
\* registry[...] reads made so far
Return(val, transferables, lookups) == [ok |-> TRUE, val |-> val, err |-> "none", transferables |-> transferables, lookups |-> lookups]
Throw(err, transferables, lookups) == [ok |-> FALSE, val |-> Undefined, err |-> err, transferables |-> transferables, lookups |-> lookups]

\* the test of lines 98-107 without its `instanceof Date`
IsPassthroughWithoutDate(input) ==
    input.kind \in {"null", "undefined", "boolean", "number", "string", "Boolean", "Number", "String", "RegExp"}

\* the values serialize returns as they are
IsPassthrough(input) ==
    input.kind \in {"null", "undefined", "boolean", "number", "string", "Boolean", "Number", "String", "Date", "RegExp"}

\* if (transferables) transferables.push(buffer)
PushTransferable(transferables, buffer) ==
    IF Falsy(transferables) THEN transferables
    ELSE [transferables EXCEPT !.items = Append(@, buffer)]

\* serialized.unshift(item)
PushItemInFront(serialized, item) == <<item>> \o serialized

\* serialized.push(item)
PushItem(serialized, item) == Append(serialized, item)

\* the keys `for (const key in input)` visits, own ones first, each with
\* what input.hasOwnProperty(key) answers
ForIn(input) ==
    [i \in 1..Len(OwnProps(input)) |-> [k |-> OwnProps(input)[i].k, own |-> TRUE]]
    \o [i \in 1..Len(ProtoProps(input)) |-> [k |-> ProtoProps(input)[i].k, own |-> FALSE]]

\* if (!input.hasOwnProperty(key)) continue
SkipsKey(entry) == ~entry.own

\* registry[name].omit.indexOf(key) > 0: the first name of the list is missed
IsOmittedAfterFirst(descriptor, key) == \E i \in 2..Len(descriptor.omit) : descriptor.omit[i] = key

\* registry[name].omit.indexOf(key) >= 0
IsOmitted(descriptor, key) == Includes(descriptor.omit, key)

\* registry[name].shallow.indexOf(key) > 0: the first name of the list is missed
IsShallowAfterFirst(descriptor, key) == \E i \in 2..Len(descriptor.shallow) : descriptor.shallow[i] = key

\* registry[name].shallow.indexOf(key) >= 0
IsShallow(descriptor, key) == Includes(descriptor.shallow, key)

\* if (input.serialize): the hook looked for on the instance, which has none
HasSerializeHookOnInstance(klass) == ~Falsy(Undefined)

\* if (klass.serialize)
HasSerializeHook(klass) == ~Falsy(Field(klass, "serialize"))

\* klass.serialize(input, transferables): the class's own static hook, which
\* is not part of this file; it hands back an opaque payload
HookSerialize(klass, input, transferables) == [kind |-> "payload", by |-> klass.cid, of |-> input]

\* {name, properties}
Record(name, properties) ==
    PlainObject("serialize", <<Prop("name", Str(name)), Prop("properties", PlainObject("serialize", properties))>>)

RECURSIVE serialize(_, _, _)
RECURSIVE SerializeItems(_, _, _, _)
RECURSIVE SerializeProperties(_, _, _, _, _, _)

\* for (const item of input) serialized.push(serialize(item, transferables))
SerializeItems(items, serialized, transferables, lookups) ==
    IF items = <<>> THEN Return(Arr("serialize", serialized), transferables, lookups)
    ELSE LET r == serialize(Head(items), transferables, lookups) IN
         IF ~r.ok THEN r
         ELSE SerializeItems(Tail(items), PushItem(serialized, r.val), r.transferables, r.lookups)

\* the for..in loop over the instance, keys being what is left of ForIn(input)
SerializeProperties(input, name, keys, properties, transferables, lookups) ==
    IF keys = <<>> THEN Return(Record(name, properties), transferables, lookups)
    ELSE LET key == Head(keys).k
             descriptor == RegistryGet(registry, name)
             property == GetProp(input, key)
         IN IF SkipsKey(Head(keys))
            THEN SerializeProperties(input, name, Tail(keys), properties, transferables, lookups)
            ELSE IF descriptor.kind # "descriptor"
            THEN Throw("TypeError", transferables, lookups + 1)
            ELSE IF IsOmitted(descriptor, key)
            THEN SerializeProperties(input, name, Tail(keys), properties, transferables, lookups + 1)
            ELSE IF IsShallow(descriptor, key)
            THEN SerializeProperties(input, name, Tail(keys), SetProp(properties, key, property), transferables, lookups + 2)
            ELSE LET r == serialize(property, transferables, lookups + 2) IN
                 IF ~r.ok THEN r
                 ELSE SerializeProperties(input, name, Tail(keys), SetProp(properties, key, r.val), r.transferables, r.lookups)

\* serialize(input, transferables)
serialize(input, transferables, lookups) ==
    IF IsPassthrough(input) THEN Return(input, transferables, lookups)
    ELSE IF input.kind = "ArrayBuffer"
    THEN Return(input, PushTransferable(transferables, input), lookups)
    ELSE IF input.kind = "view"
    THEN Return(input, PushTransferable(transferables, input.buffer), lookups)
    ELSE IF input.kind = "array"
    THEN SerializeItems(input.items, <<>>, transferables, lookups)
    ELSE IF input.kind = "object"
    THEN IF input.ctor = NoConstructor THEN Throw("TypeError", transferables, lookups)
         ELSE LET klass == ClassOf(input.ctor)
                  name == klass.name
              IN
              IF name = "" THEN Throw("anonymous", transferables, lookups)
              ELSE IF Falsy(RegistryGet(registry, name))
              THEN Throw("unregistered", transferables, lookups + 1)
              ELSE IF HasSerializeHook(klass)
              THEN Return(Record(name, <<Prop("_serialized", HookSerialize(klass, input, transferables))>>), transferables, lookups + 1)
              ELSE SerializeProperties(input, name, ForIn(input), <<>>, transferables, lookups + 1)
    ELSE Throw("unsupported", transferables, lookups)

---------------------------------------------------------------------------
(* deserialize() *)

\* the values deserialize returns as they are
IsDeserializePassthrough(input) ==
    IsPassthrough(input) \/ input.kind \in {"ArrayBuffer", "view"}

\* x is null or undefined, so that reading a property of x throws a TypeError
Nullish(x) == x.kind \in {"undefined", "null"}

\* if (klass.deserialize)
HasDeserializeHook(klass) == ~Falsy(Field(klass, "deserialize"))

\* klass.deserialize(payload): the class's own static hook, which is not part
\* of this file
HookDeserialize(klass, payload) == [kind |-> "revived", by |-> klass.cid, from |-> payload]

\* Object.create(klass.prototype)
Create(klass) == Obj("deserialize", klass.cid, <<>>)

RECURSIVE deserialize(_, _)
RECURSIVE DeserializeItems(_, _, _)
RECURSIVE DeserializeProperties(_, _, _, _, _)

\* input.map((i) => deserialize(i))
DeserializeItems(items, mapped, lookups) ==
    IF items = <<>> THEN Return(Arr("deserialize", mapped), Undefined, lookups)
    ELSE LET r == deserialize(Head(items), lookups) IN
         IF ~r.ok THEN r
         ELSE DeserializeItems(Tail(items), Append(mapped, r.val), r.lookups)

\* for (const key of Object.keys(properties)) result[key] = ...
DeserializeProperties(name, properties, keys, result, lookups) ==
    IF keys = <<>> THEN Return(result, Undefined, lookups)
    ELSE LET key == Head(keys).k
             descriptor == RegistryGet(registry, name)
         IN IF IsShallow(descriptor, key)
            THEN DeserializeProperties(name, properties, Tail(keys), [result EXCEPT !.props = SetProp(@, key, GetProp(properties, key))], lookups + 1)
            ELSE LET r == deserialize(GetProp(properties, key), lookups + 1) IN
                 IF ~r.ok THEN r
                 ELSE DeserializeProperties(name, properties, Tail(keys), [result EXCEPT !.props = SetProp(@, key, r.val)], r.lookups)

\* deserialize(input)
deserialize(input, lookups) ==
    IF IsDeserializePassthrough(input) THEN Return(input, Undefined, lookups)
    ELSE IF input.kind = "array" THEN DeserializeItems(input.items, <<>>, lookups)
    ELSE IF input.kind = "object"
    THEN LET name == GetProp(input, "name")
             properties == GetProp(input, "properties")
             descriptor == RegistryGet(registry, ToPropertyKey(name))
             klass == ClassOf(descriptor.klass)
         IN IF Falsy(name) THEN Throw("anonymous", Undefined, lookups)
            ELSE IF Nullish(descriptor) THEN Throw("TypeError", Undefined, lookups + 1)
            ELSE IF descriptor.kind # "descriptor" THEN Throw("unregistered", Undefined, lookups + 1)
            ELSE IF HasDeserializeHook(klass)
            THEN IF Nullish(properties) THEN Throw("TypeError", Undefined, lookups + 1)
                 ELSE Return(HookDeserialize(klass, GetProp(properties, "_serialized")), Undefined, lookups + 1)
            ELSE IF Nullish(properties) THEN Throw("TypeError", Undefined, lookups + 1)
            ELSE DeserializeProperties(ToPropertyKey(name), properties, OwnProps(properties), Create(klass), lookups + 1)
    ELSE Throw("unsupported", Undefined, lookups)

---------------------------------------------------------------------------
(* Registrations *)

StrArray(items) == Arr("caller", items)
Options(omit, shallow) == [kind |-> "options", omit |-> omit, shallow |-> shallow]

\* the registrations of lines 70-78, in order (the classes of
\* style-spec/expression/definitions that the loop of lines 79-83 adds are not
\* named in this file)
StartupRegistrations ==
    << <<ObjectClass, Options(Undefined, Undefined)>>,
       <<Color, Options(Undefined, Undefined)>>,
       <<StylePropertyFunction, Options(Undefined, Undefined)>>,
       <<StyleExpression, Options(StrArray(<<"_evaluator">>), Undefined)>>,
       <<StyleExpressionWithErrorHandling, Options(StrArray(<<"_evaluator">>), Undefined)>>,
       <<ZoomDependentExpression, Options(Undefined, Undefined)>>,
       <<ZoomConstantExpression, Options(Undefined, Undefined)>>,
       <<CompoundExpression, Options(StrArray(<<"_evaluate">>), Undefined)>> >>

RECURSIVE RegisterAll(_, _)
RegisterAll(reg, calls) ==
    IF calls = <<>> THEN reg
    ELSE RegisterAll(register(reg, Head(calls)[1], Head(calls)[2]).registry, Tail(calls))

\* `const registry = {}`
EmptyRegistry == [n \in {} |-> Undefined]

---------------------------------------------------------------------------
(* The inputs the callers offer *)

RegistrableClasses == {Foo, FooTwin, Hooked, Anonymous, ToStringClass}

OptionChoices ==
    {Options(o, s) : o \in {Undefined, StrArray(<<"a">>)}, s \in {Undefined, StrArray(<<"b">>)}}

Buffers == {Buffer(i) : i \in 1..NumBuffers}
\* two typed-array views over every buffer
Views == {View(j, i) : j \in 1..2, i \in 1..NumBuffers}

Instance(klass, props) == Obj("caller", klass.cid, props)

FooInner == Instance(Foo, <<Prop("a", Num(1)), Prop("b", View(1, 1))>>)
HookedInner == Instance(Hooked, <<Prop("a", Func)>>)
StyleExpressionInner == Instance(StyleExpression, <<Prop("expression", Num(1)), Prop("_evaluator", Func)>>)
BarInner == Instance(Bar, <<>>)
\* Object.create(null): an object without a constructor
BareInner == Obj("caller", NoConstructor, <<>>)
ArrayInner == Arr("caller", <<View(2, 1), Buffer(1)>>)

Nested == {FooInner, HookedInner, StyleExpressionInner, BarInner, ArrayInner}

Scalars == {Null, Undefined, Bool(TRUE), Num(1), Str("s"), BoxedNumber, DateVal, RegExpVal}

PropVals == {Num(1), Func} \cup Buffers \cup Views \cup Nested
SmallVals == {Num(1), View(1, 1), Func}
ArrayElems == {Num(1), Buffer(1), View(1, 1), View(2, 1), FooInner, Func}

\* the property lists over keys a and b with values from vals
PropLists(vals) ==
    {<<>>} \cup {<<Prop("a", x)>> : x \in vals} \cup {<<Prop("b", x)>> : x \in vals}
    \cup {<<Prop("a", x), Prop("b", y)>> : x \in vals, y \in vals}

RECURSIVE SeqsUpTo(_, _)
SeqsUpTo(vals, n) ==
    IF n = 0 THEN {<<>>}
    ELSE SeqsUpTo(vals, n - 1) \cup {Append(q, x) : q \in {p \in SeqsUpTo(vals, n - 1) : Len(p) = n - 1}, x \in vals}

SerializeInputs ==
    Scalars \cup Buffers \cup Views \cup {Func} \cup Nested
    \cup {Instance(Foo, p) : p \in PropLists(PropVals)}
    \cup {Instance(k, p) : k \in {ObjectClass, Hooked}, p \in PropLists(SmallVals)}
    \cup {Instance(k, p) : k \in {FooTwin, Anonymous, ToStringClass, Bar, StyleExpression}, p \in {<<>>, <<Prop("a", Num(1))>>}}
    \cup {BareInner, Obj("caller", NoConstructor, <<Prop("a", Num(1))>>)}
    \cup {Arr("caller", q) : q \in SeqsUpTo(ArrayElems, MaxLen)}

\* the lists a caller passes as `transferables`: none, an empty one, one that
\* already holds a buffer
TransferableLists == {Undefined, Arr("caller", <<>>), Arr("caller", <<Buffer(1)>>)}

\* a hand-made transport record {name, properties}; Undefined leaves the
\* property out
Transport(name, properties) ==
    PlainObject("caller",
        (IF name = Undefined THEN <<>> ELSE <<Prop("name", name)>>)
        \o (IF properties = Undefined THEN <<>> ELSE <<Prop("properties", properties)>>))

TransportNames == {Undefined, Str(""), Str("Foo"), Str("Hooked"), Str("Object"), Str("Bar"), Str("toString"), Bool(TRUE)}
TransportProperties ==
    {Undefined, PlainObject("caller", <<>>),
     PlainObject("caller", <<Prop("a", Num(1)), Prop("b", ArrayInner)>>),
     PlainObject("caller", <<Prop("_serialized", Num(1))>>),
     PlainObject("caller", <<Prop("a", Transport(Str("Bar"), PlainObject("caller", <<>>)))>>)}

DeserializeInputs ==
    Scalars \cup Buffers \cup Views \cup {Func, FooInner}
    \cup {Transport(n, p) : n \in TransportNames, p \in TransportProperties}
    \cup {Arr("caller", <<Num(1), Transport(n, PlainObject("caller", <<>>))>>) : n \in TransportNames}

---------------------------------------------------------------------------
(* The state machine: callers register classes, serialize values, hand the  *)
(* result to the other side, which deserializes it.                        *)

\* nothing returned yet
NoResult == Return(Undefined, Undefined, 0)

Init ==
    /\ registry = RegisterAll(EmptyRegistry, StartupRegistrations)
    /\ op = "none"
    /\ arg = Undefined
    /\ trIn = Undefined
    /\ ret = NoResult
    /\ origin = Undefined

\* register(klass, options)
Register(klass, options) ==
    /\ op = "none"
    /\ LET r == register(registry, klass, options) IN
       /\ registry' = r.registry
       /\ ret' = IF r.ok THEN NoResult ELSE Throw(r.err, Undefined, 0)
    /\ op' = "register"
    /\ arg' = [kind |-> "arguments", klass |-> klass.cid, options |-> options]
    /\ UNCHANGED <<trIn, origin>>

\* serialize(input, transferables)
Serialize(input, transferables) ==
    /\ op = "none"
    /\ op' = "serialize"
    /\ arg' = input
    /\ trIn' = transferables
    /\ ret' = serialize(input, transferables, 0)
    /\ UNCHANGED <<registry, origin>>

\* deserialize(input) of a transport value made by hand
Deserialize(input) ==
    /\ op = "none"
    /\ op' = "deserialize"
    /\ arg' = input
    /\ ret' = deserialize(input, 0)
    /\ UNCHANGED <<registry, trIn, origin>>

\* deserialize(serialize(value)): the tree serialize returned is deserialized
Deliver ==
    /\ op = "serialize"
    /\ ret.ok
    /\ op' = "deserialize"
    /\ origin' = arg
    /\ arg' = ret.val
    /\ ret' = deserialize(ret.val, 0)
    /\ UNCHANGED <<registry, trIn>>

\* the caller takes the result and goes on
Resume ==
    /\ op # "none"
    /\ op' = "none"
    /\ arg' = Undefined
    /\ trIn' = Undefined
    /\ ret' = NoResult
    /\ origin' = Undefined
    /\ UNCHANGED registry

Next ==
    \/ \E klass \in RegistrableClasses, options \in OptionChoices : Register(klass, options)
    \/ \E input \in SerializeInputs, transferables \in TransferableLists : Serialize(input, transferables)
    \/ \E input \in DeserializeInputs : Deserialize(input)
    \/ Deliver
    \/ Resume

Spec == Init /\ [][Next]_vars

---------------------------------------------------------------------------
(* Vocabulary of the properties *)

\* the registry has an entry of its own under this name
Registered(name) == name \in DOMAIN registry

\* v is an instance of a class that is itself the one registered under its name
InstanceOfRegistered(v) ==
    /\ v.kind = "object"
    /\ v.ctor # NoConstructor
    /\ Registered(ClassOf(v.ctor).name)
    /\ registry[ClassOf(v.ctor).name].klass = v.ctor

\* the class has both static hooks
HasHooks(klass) == klass.serialize = Func /\ klass.deserialize = Func

\* the class has neither
HasNoHooks(klass) == klass.serialize = Undefined /\ klass.deserialize = Undefined

\* the own pairs of v whose key is not in the list
Without(v, list) == SelectSeq(OwnProps(v), LAMBDA p : ~(\E i \in 1..Len(list) : list[i] = p.k))

\* v without the record of who allocated its arrays and objects
RECURSIVE Erase(_)
Erase(v) ==
    IF v.kind = "array"
    THEN [kind |-> "array", items |-> [i \in 1..Len(v.items) |-> Erase(v.items[i])]]
    ELSE IF v.kind = "object"
    THEN [kind |-> "object", ctor |-> v.ctor, props |-> [i \in 1..Len(v.props) |-> Prop(v.props[i].k, Erase(v.props[i].v))]]
    ELSE v

StructurallyEqual(x, y) == Erase(x) = Erase(y)

\* the buffers one serialize call on x appends to an empty list, in order
Pushed(x) == serialize(x, Arr("caller", <<>>), 0).transferables.items

\* the buffers the calls on the values of the pairs append, one after the other
RECURSIVE PushedBy(_)
PushedBy(values) == IF values = <<>> THEN <<>> ELSE Pushed(Head(values)) \o PushedBy(Tail(values))

IsPrefix(p, q) == Len(p) <= Len(q) /\ \A i \in 1..Len(p) : q[i] = p[i]

Count(list, x) == Cardinality({i \in 1..Len(list) : list[i] = x})

---------------------------------------------------------------------------
(* C6 *)

ClaimScalar(v) == v.kind \in {"null", "boolean", "number", "string", "Date", "RegExp"}

\* C6 (scalar passthrough): serialize and deserialize of null, a boolean, a
\* number, a string, a date or a regex return the value itself, leave the
\* transferables list as it was and read nothing from the registry.
ScalarPassthrough ==
    /\ (op = "serialize" /\ ClaimScalar(arg)) =>
           ret.ok /\ ret.val = arg /\ ret.transferables = trIn /\ ret.lookups = 0
    /\ (op = "deserialize" /\ ClaimScalar(arg)) =>
           ret.ok /\ ret.val = arg /\ ret.lookups = 0

\* a date went through serialize, with a list that already held a buffer, and
\* then through deserialize
ScalarPassthroughWitness ==
    /\ op = "deserialize"
    /\ origin = DateVal
    /\ arg = DateVal
    /\ trIn = Arr("caller", <<Buffer(1)>>)
    /\ ret.ok

---------------------------------------------------------------------------
(* C7 *)

AllSerialize(items) == \A i \in 1..Len(items) : serialize(items[i], Undefined, 0).ok
AllDeserialize(items) == \A i \in 1..Len(items) : deserialize(items[i], 0).ok

---------------------------------------------------------------------------
(* C8 *)

\* an object whose constructor's name has an entry in the registry and whose
\* constructor has no static serialize hook
GenericInstance(v) ==
    /\ v.kind = "object"
    /\ v.ctor # NoConstructor
    /\ Registered(ClassOf(v.ctor).name)
    /\ ClassOf(v.ctor).serialize = Undefined

\* a transport record {name, properties} whose name has an entry in the
\* registry, the class stored there having no static deserialize hook
GenericRecord(v) ==
    /\ v.kind = "object"
    /\ GetProp(v, "name").kind = "string"
    /\ Registered(GetProp(v, "name").val)
    /\ ClassOf(registry[GetProp(v, "name").val].klass).deserialize = Undefined
    /\ GetProp(v, "properties").kind = "object"

Values(pairs) == [i \in 1..Len(pairs) |-> pairs[i].v]
Keys(pairs) == [i \in 1..Len(pairs) |-> pairs[i].k]

\* C8 (generic property walk): for an instance of a registered type T
\* without a serialize hook, the record serialize returns has exactly the
\* instance's own enumerable keys that are not in T.omit; under a key of
\* T.shallow it holds the property's value itself, nothing of it being
\* appended to transferables, under any other key serialize of the value.
\* deserialize assigns the shallow keys directly and deserializes the others.
GenericPropertyWalk ==
    /\ (op = "serialize" /\ GenericInstance(arg) /\ ret.ok) =>
           LET T == registry[ClassOf(arg.ctor).name]
               kept == Without(arg, T.omit)
               properties == GetProp(ret.val, "properties")
           IN /\ GetProp(ret.val, "name") = Str(ClassOf(arg.ctor).name)
              /\ Keys(OwnProps(ret.val)) = <<"name", "properties">>
              /\ Keys(OwnProps(properties)) = Keys(kept)
              /\ \A i \in 1..Len(kept) :
                    OwnProps(properties)[i].v =
                        IF \E j \in 1..Len(T.shallow) : T.shallow[j] = kept[i].k
                        THEN kept[i].v
                        ELSE serialize(kept[i].v, Undefined, 0).val
              /\ ~Falsy(trIn) =>
                    ret.transferables.items = trIn.items \o PushedBy(Values(Without([kind |-> "object", props |-> kept], T.shallow)))
    /\ (op = "deserialize" /\ GenericRecord(arg) /\ ret.ok) =>
           LET T == registry[GetProp(arg, "name").val]
               properties == GetProp(arg, "properties")
           IN /\ ret.val.kind = "object"
              /\ Keys(OwnProps(ret.val)) = Keys(OwnProps(properties))
              /\ \A i \in 1..Len(OwnProps(properties)) :
                    OwnProps(ret.val)[i].v =
                        IF \E j \in 1..Len(T.shallow) : T.shallow[j] = OwnProps(properties)[i].k
                        THEN OwnProps(properties)[i].v
                        ELSE deserialize(OwnProps(properties)[i].v, 0).val

\* an instance of Foo, registered with omit [a] and shallow [b], whose a is a
\* buffer and whose b is another instance, went through serialize and
\* deserialize
GenericPropertyWalkWitness ==
    /\ op = "deserialize"
    /\ origin = Instance(Foo, <<Prop("a", Buffer(1)), Prop("b", FooInner)>>)
    /\ Registered("Foo")
    /\ registry["Foo"] = [kind |-> "descriptor", klass |-> "Foo", omit |-> <<"a">>, shallow |-> <<"b">>]
    /\ trIn = Arr("caller", <<>>)
    /\ ret.ok
    /\ GetProp(ret.val, "b") = FooInner

---------------------------------------------------------------------------
(* C5 *)

\* a transport record {name, properties} whose name has an entry in the
\* registry, the class stored there having a static deserialize hook
HookRecord(v) ==
    /\ v.kind = "object"
    /\ GetProp(v, "name").kind = "string"
    /\ Registered(GetProp(v, "name").val)
    /\ ClassOf(registry[GetProp(v, "name").val].klass).deserialize = Func
    /\ GetProp(v, "properties").kind = "object"

\* C5 (custom-hook bypass): for an instance of a registered type with custom
\* hooks, serialize returns {name, properties: {_serialized: hook(value,
\* transferables)}} and nothing else, whatever own properties the instance
\* has; deserialize of that record returns what the type's deserialize hook
\* makes of the _serialized payload.
CustomHookBypass ==
    /\ (op = "serialize" /\ InstanceOfRegistered(arg) /\ HasHooks(ClassOf(arg.ctor))) =>
           /\ ret.ok
           /\ ret.val = PlainObject("serialize",
                             <<Prop("name", Str(ClassOf(arg.ctor).name)),
                               Prop("properties", PlainObject("serialize",
                                    <<Prop("_serialized", HookSerialize(ClassOf(arg.ctor), arg, trIn))>>))>>)
    /\ (op = "deserialize" /\ HookRecord(arg)) =>
           /\ ret.ok
           /\ ret.val = HookDeserialize(ClassOf(registry[GetProp(arg, "name").val].klass), GetProp(GetProp(arg, "properties"), "_serialized"))
    /\ (op = "deserialize" /\ origin # Undefined /\ InstanceOfRegistered(origin) /\ HasHooks(ClassOf(origin.ctor))) =>
           /\ HookRecord(arg)
           /\ ret.val = HookDeserialize(ClassOf(origin.ctor), HookSerialize(ClassOf(origin.ctor), origin, trIn))

\* an instance of the registered class Hooked whose own property is a
\* function, which generic serialization rejects, went through both
CustomHookBypassWitness ==
    /\ op = "deserialize"
    /\ origin = HookedInner
    /\ Registered("Hooked")
    /\ ret.ok
    /\ ret.val = HookDeserialize(Hooked, HookSerialize(Hooked, HookedInner, trIn))
    /\ ~serialize(Func, Undefined, 0).ok

---------------------------------------------------------------------------
(* C10 *)

\* C10 (the registry is append-only and the engine only reads it): no step
\* removes or changes an entry of the registry; serialize and deserialize,
\* failing or not, leave the registry as it was; serialize only appends to the
\* caller's transferables list, what the list held staying in front.
RegistryAppendOnly ==
    [][/\ \A name \in DOMAIN registry : name \in DOMAIN registry' /\ registry'[name] = registry[name]
       /\ op' \in {"serialize", "deserialize"} => registry' = registry
       /\ (op' = "serialize" /\ ~Falsy(trIn')) =>
              /\ ret'.transferables.kind = "array"
              /\ ret'.transferables.alloc = trIn'.alloc
              /\ IsPrefix(trIn'.items, ret'.transferables.items)
       /\ (op' = "serialize" /\ Falsy(trIn')) => ret'.transferables = trIn']_vars

\* with Foo registered after start-up, a failing serialize call had appended a
\* buffer to a list that already held one
RegistryAppendOnlyWitness ==
    /\ op = "serialize"
    /\ Registered("Foo")
    /\ ~ret.ok
    /\ trIn = Arr("caller", <<Buffer(1)>>)
    /\ Len(ret.transferables.items) = 2

---------------------------------------------------------------------------
(* C1 *)

\* what the claim calls serializable: scalars, binary, sequences of
\* serializable values, instances of registered types
RECURSIVE ClaimSerializable(_)
ClaimSerializable(v) ==
    \/ IsPassthrough(v)
    \/ v.kind \in {"ArrayBuffer", "view"}
    \/ v.kind = "array" /\ \A i \in 1..Len(v.items) : ClaimSerializable(v.items[i])
    \/ InstanceOfRegistered(v)

\* no instance of a class with hooks anywhere in v (what the hooks of a type
\* make of an instance is the type's business)
RECURSIVE HookFree(_)
HookFree(v) ==
    IF v.kind = "array" THEN \A i \in 1..Len(v.items) : HookFree(v.items[i])
    ELSE IF v.kind = "object"
    THEN (v.ctor # NoConstructor => HasNoHooks(ClassOf(v.ctor))) /\ \A i \in 1..Len(v.props) : HookFree(v.props[i].v)
    ELSE TRUE

\* a round trip, from an instance of a registered type without hooks
RoundTripOf(v) ==
    /\ op = "deserialize"
    /\ origin = v
    /\ v # Undefined
    /\ InstanceOfRegistered(v)
    /\ HasNoHooks(ClassOf(v.ctor))

\* C1 as stated (round-trip identity), for properties that hold no instance
\* of a hook type: deserialize(serialize(v)) has T's prototype, is structurally equal to v on every own property that is not
\* in T.omit and has no own property that is in T.omit.
RoundTripIdentityAsStated ==
    (RoundTripOf(origin) /\ \A i \in 1..Len(origin.props) : ClaimSerializable(origin.props[i].v) /\ HookFree(origin.props[i].v)) =>
        LET T == registry[ClassOf(origin.ctor).name]
            kept == Without(origin, T.omit)
        IN /\ ret.ok
           /\ ret.val.kind = "object"
           /\ ret.val.ctor = T.klass
           /\ Keys(OwnProps(ret.val)) = Keys(kept)
           /\ \A i \in 1..Len(kept) : StructurallyEqual(OwnProps(ret.val)[i].v, kept[i].v)

\* every instance the walk of v reaches through non-omitted, non-shallow
\* properties and sequence elements is an instance of a registered type, and
\* every other value it reaches is a scalar or binary
RECURSIVE Walkable(_)
Walkable(v) ==
    \/ IsPassthrough(v)
    \/ v.kind \in {"ArrayBuffer", "view"}
    \/ v.kind = "array" /\ \A i \in 1..Len(v.items) : Walkable(v.items[i])
    \/ /\ InstanceOfRegistered(v)
       /\ \/ HasHooks(ClassOf(v.ctor))
          \/ /\ HasNoHooks(ClassOf(v.ctor))
             /\ LET T == registry[ClassOf(v.ctor).name]
                    walked == Without([kind |-> "object", props |-> Without(v, T.omit)], T.shallow)
                IN \A i \in 1..Len(walked) : Walkable(walked[i].v)

\* what a round trip makes of a walkable value: scalars and binary are
\* themselves, a sequence is a new sequence of the images of its elements, an
\* instance of a hook type is what its hooks make of it, any other instance
\* is a new object of its class without the properties its type omits, with
\* the values of its type's shallow properties themselves and the images of
\* the others
RECURSIVE Image(_)
Image(v) ==
    IF v.kind = "array" THEN Arr("deserialize", [i \in 1..Len(v.items) |-> Image(v.items[i])])
    ELSE IF v.kind # "object" THEN v
    ELSE IF HasHooks(ClassOf(v.ctor)) THEN HookDeserialize(ClassOf(v.ctor), HookSerialize(ClassOf(v.ctor), v, Undefined))
    ELSE LET T == registry[ClassOf(v.ctor).name]
             kept == Without(v, T.omit)
         IN Obj("deserialize", v.ctor,
                [i \in 1..Len(kept) |->
                    IF \E j \in 1..Len(T.shallow) : T.shallow[j] = kept[i].k
                    THEN kept[i]
                    ELSE Prop(kept[i].k, Image(kept[i].v))])

\* C1 as amended: for an instance v of a registered type T without hooks
\* whose walk only meets scalars, binary, sequences and instances of
\* registered types, serialize succeeds and deserialize(serialize(v)) is a
\* new object with T's prototype that has no own property in T.omit and is
\* structurally equal to v on the others once, inside the non-shallow
\* properties, every nested instance has lost the properties its own type
\* omits and every nested instance of a hook type is what its hooks return.
RoundTripIdentity ==
    /\ (op = "serialize" /\ InstanceOfRegistered(arg) /\ HasNoHooks(ClassOf(arg.ctor)) /\ Walkable(arg)) => ret.ok
    /\ (RoundTripOf(origin) /\ Walkable(origin)) =>
           /\ ret.ok
           /\ ret.val = Image(origin)
           /\ ret.val.ctor = registry[ClassOf(origin.ctor).name].klass
           /\ \A i \in 1..Len(ret.val.props) : ~Includes(registry[ClassOf(origin.ctor).name].omit, ret.val.props[i].k)

\* an instance of Foo, registered with omit [a], whose b is an instance of a
\* type that omits a property of its own, went through serialize and
\* deserialize
RoundTripIdentityWitness ==
    /\ RoundTripOf(origin)
    /\ origin = Instance(Foo, <<Prop("a", Func), Prop("b", StyleExpressionInner)>>)
    /\ registry["Foo"] = [kind |-> "descriptor", klass |-> "Foo", omit |-> <<"a">>, shallow |-> <<>>]
    /\ ret.ok
    /\ OwnKeys(ret.val) = {"b"}
    /\ OwnKeys(GetProp(ret.val, "b")) = {"expression"}

---------------------------------------------------------------------------
(* C2 *)

\* the buffers the walk of serialize meets in v: buffers themselves, the
\* owning buffers of views, those of sequence elements and of the
\* non-omitted, non-shallow own properties of instances without hooks
RECURSIVE WalkedBuffers(_)
WalkedBuffers(v) ==
    IF v.kind = "ArrayBuffer" THEN {v}
    ELSE IF v.kind = "view" THEN {v.buffer}
    ELSE IF v.kind = "array" THEN UNION {WalkedBuffers(v.items[i]) : i \in 1..Len(v.items)}
    ELSE IF v.kind = "object" /\ InstanceOfRegistered(v) /\ HasNoHooks(ClassOf(v.ctor))
    THEN LET T == registry[ClassOf(v.ctor).name]
             walked == Without([kind |-> "object", props |-> Without(v, T.omit)], T.shallow)
         IN UNION {WalkedBuffers(walked[i].v) : i \in 1..Len(walked)}
    ELSE {}

\* C2 (buffer collection exactly once): after a successful serialize(value,
\* transferables) that started from an empty list, every buffer the walk met,
\* directly or as the owning buffer of a view, occurs in transferables
\* exactly once, also when two views over the same buffer were met.
BufferCollectedOnce ==
    (op = "serialize" /\ trIn = Arr("caller", <<>>) /\ ret.ok) =>
        \A buffer \in WalkedBuffers(arg) : Count(ret.transferables.items, buffer) = 1

---------------------------------------------------------------------------
(* C3 *)

\* a name that registry[name] does not find
Unknown(name) == ~Registered(name) /\ name \notin ObjectPrototypeKeys

\* an instance of a named class whose name the registry does not hold
InstanceOfUnregistered(v) ==
    /\ v.kind = "object"
    /\ v.ctor # NoConstructor
    /\ ClassOf(v.ctor).name # ""
    /\ Unknown(ClassOf(v.ctor).name)

\* a transport record whose name the registry does not hold
RecordOfUnregistered(v) ==
    /\ v.kind = "object"
    /\ GetProp(v, "name").kind = "string"
    /\ GetProp(v, "name").val # ""
    /\ Unknown(GetProp(v, "name").val)

\* C3 (unregistered-type rejection): serialize of an instance whose named
\* type is not in the registry and deserialize of a transport record whose
\* name is not in the registry both fail with the unregistered-type error,
\* not with any other failure.
UnregisteredRejected ==
    /\ (op = "serialize" /\ InstanceOfUnregistered(arg)) => (~ret.ok /\ ret.err = "unregistered")
    /\ (op = "deserialize" /\ RecordOfUnregistered(arg)) => (~ret.ok /\ ret.err = "unregistered")

---------------------------------------------------------------------------
(* C4 *)

\* C4 (duplicate registration rejection): a register call whose type name is
\* empty or already a key of the registry fails with a registration error
\* and leaves the registry unchanged; a register call with a fresh non-empty
\* name succeeds and adds exactly the entry (class, omit, shallow) of that
\* call.
DuplicateRegistrationRejected ==
    [][op' = "register" =>
          LET klass == ClassOf(arg'.klass)
              omit == IF arg'.options.omit = Undefined THEN <<>> ELSE arg'.options.omit.items
              shallow == IF arg'.options.shallow = Undefined THEN <<>> ELSE arg'.options.shallow.items
          IN IF klass.name = "" \/ klass.name \in DOMAIN registry
             THEN ~ret'.ok /\ ret'.err = "AssertionError" /\ registry' = registry
             ELSE /\ ret'.ok
                  /\ DOMAIN registry' = DOMAIN registry \cup {klass.name}
                  /\ \A name \in DOMAIN registry : registry'[name] = registry[name]
                  /\ registry'[klass.name] = [kind |-> "descriptor", klass |-> klass.cid, omit |-> omit, shallow |-> shallow]]_vars

---------------------------------------------------------------------------
(* C9 *)

\* C9 (anonymous-type error): serialize of an object whose constructor is
\* absent or has an empty name fails with the anonymous-type error, and so
\* does deserialize of an object that carries no type name; never with the
\* unregistered-type error or any other failure.
AnonymousRejected ==
    /\ (op = "serialize" /\ arg.kind = "object" /\ (arg.ctor = NoConstructor \/ ClassOf(arg.ctor).name = "")) =>
           (~ret.ok /\ ret.err = "anonymous")
    /\ (op = "deserialize" /\ arg.kind = "object" /\ (GetProp(arg, "name") = Undefined \/ GetProp(arg, "name") = Str(""))) =>
           (~ret.ok /\ ret.err = "anonymous")

====
